---- MODULE Spec2Model ----
(***************************************************************************)
(* The asynchronous folder-archival subsystem of simpleFileServer: the     *)
(* ZipProgressTracker registry, the start-zip / zip-progress /             *)
(* download-zip endpoints and the background task createZipWithProgress,   *)
(* with the archiver and the output stream as an environment that emits    *)
(* 'entry', 'error' and 'close' events.                                    *)
(*                                                                         *)
(* Node runs every handler and every callback to completion on one thread, *)
(* so each of them is one atomic action.                                   *)
(***************************************************************************)
EXTENDS Integers, Sequences, FiniteSets, TLC

\* ------------------------------------------------------------------ bounds
MaxJobs == 1          \* start-zip requests that pass the pre-flight checks
MaxClock == 1         \* Date.now() takes the values 0..MaxClock
MaxErrors == 1        \* 'error' events the streams of one job emit
MaxDownloads == 1     \* unlink timers pending for one artifact
MaxStarts == 2        \* 'Create ZIP' clicks in the browser page
MaxPathLen == 2       \* segments of the path query of a file request

\* values Math.random().toString(36).substr(2, 9) yields in the model
RandVals == {1, 2}

\* ------------------------------------------------------------ file system
\* An item of a directory: statOk tells whether fs.stat succeeds on it,
\* listOk (directories) whether fs.readdir succeeds on it.
File(n) ==
    [name |-> n, isDir |-> FALSE, kids |-> <<>>, statOk |-> TRUE, listOk |-> TRUE]
Directory(n, kids) ==
    [name |-> n, isDir |-> TRUE, kids |-> kids, statOk |-> TRUE, listOk |-> TRUE]

\* an item fs.stat fails on (a dangling symlink, a file deleted after the
\* listing), a directory fs.readdir fails on (no permission)
NoStat(item) == [item EXCEPT !.statOk = FALSE]
NoList(item) == [item EXCEPT !.listOk = FALSE]

\* the folders of the served directory
FolderNames == {"empty", "photos", "nested", "dirs"}

\* folders of the served directory with an item that cannot be read
WalkFolders == {"locked", "sealed", "gone"}

\* what fs.readdir returns for each folder
FolderItems(f) ==
    CASE f = "empty"  -> <<>>
      [] f = "photos" -> <<File("a.jpg"), File("b.jpg"), File("c.jpg")>>
      [] f = "nested" -> <<Directory("sub/", <<File("sub/x.txt")>>)>>
      [] f = "dirs"   -> <<Directory("d/", <<>>)>>
      [] f = "locked" -> <<File("a.txt"), NoStat(File("b.lnk")), File("c.txt")>>
      [] f = "sealed" -> <<NoList(Directory("p/", <<File("p/x.txt")>>)),
                           File("q.txt")>>
      [] f = "gone"   -> <<NoStat(Directory("g/", <<File("g/y.txt")>>)),
                           File("h.txt")>>

Folder(f) == Directory("", FolderItems(f))

\* names a start-zip request may carry: the folders, a missing name, a file
RequestNames == FolderNames \cup {"missing", "notes.txt"}

existsSync(n) == n \in FolderNames \cup WalkFolders \cup {"notes.txt"}
isDirectory(n) == n \in FolderNames \cup WalkFolders

\* countFilesRecursive: every non-directory item at every depth.  The whole
\* body is inside one try block: a readdir that throws yields 0, a stat that
\* throws ends the loop and yields what was counted up to that item.
RECURSIVE countFilesRecursive(_), CountItems(_)
CountItems(items) ==
    IF items = <<>> THEN 0
    ELSE LET item == Head(items)
         IN  IF ~item.statOk THEN 0
             ELSE (IF item.isDir THEN countFilesRecursive(item) ELSE 1)
                  + CountItems(Tail(items))

countFilesRecursive(dir) ==
    IF ~dir.listOk THEN 0 ELSE CountItems(dir.kids)

\* the entries archive.directory(folderPath, false) appends: every file and
\* every subdirectory, parents first, named relative to the folder
RECURSIVE ArchiveEntries(_)
\* an archive that appends the first item only
ArchiveEntries_FirstOnly(items) ==
    IF items = <<>> THEN <<>> ELSE <<Head(items).name>>

ArchiveEntries(items) ==
    IF items = <<>> THEN <<>>
    ELSE LET item == Head(items)
         IN  <<item.name>>
             \o (IF item.isDir THEN ArchiveEntries(item.kids) ELSE <<>>)
             \o ArchiveEntries(Tail(items))

\* ------------------------------------------------------------- JS numbers
\* job.progress is a JS number: a finite integer or Infinity (x / 0)
Fin(n) == [finite |-> TRUE, n |-> n]
Infinity == [finite |-> FALSE, n |-> 0]

\* the percentage of what is left to do
RoundPercent_Remaining(filesProcessed, totalFiles) ==
    IF totalFiles = 0 THEN Infinity
    ELSE Fin(100 - (200 * filesProcessed + totalFiles) \div (2 * totalFiles))

\* Math.round((filesProcessed / totalFiles) * 100) with filesProcessed >= 1:
\* Infinity for totalFiles = 0, else the quotient rounded half up
RoundPercent(filesProcessed, totalFiles) ==
    IF totalFiles = 0 THEN Infinity
    ELSE Fin((200 * filesProcessed + totalFiles) \div (2 * totalFiles))

\* ------------------------------------------------------------------ state
AllIds == (0..MaxClock) \X RandVals          \* `zip_${Date.now()}_${rand}`
\* temp/`${foldername}_${Date.now()}.zip`
AllPaths == (FolderNames \cup WalkFolders) \X (0..MaxClock)

VARIABLES
    now,            \* Date.now() as the last start-zip request read it
    tempExists,     \* the temp directory exists
    activeJobs,     \* ZipProgressTracker.activeJobs: jobId -> job record
    evictTimers,    \* pending setTimeout(() => activeJobs.delete(jobId), 30000)
    tasks,          \* one createZipWithProgress call per created job
    files,          \* the artifact files that exist in temp/
    cleanupTimers,  \* pending setTimeout(unlink zipPath, 5000)
    evicted,        \* history: the jobIds an eviction timer has fired for
    client,         \* the FileServer object of the browser page and its timers
    request         \* the file request the server handled last

vars == <<now, tempExists, activeJobs, evictTimers, tasks, files,
          cleanupTimers, evicted, client, request>>

\* the state of the ZIP subsystem of the server
zipVars == <<now, tempExists, activeJobs, evictTimers, tasks, files,
             cleanupTimers, evicted>>

\* the tracker together with the eviction timers its methods have set
Tracker == [jobs |-> activeJobs, timers |-> evictTimers]

Undefined == "undefined"
Null == "null"

\* --------------------------------------------------------------- registry
NewJob(jobId, folderPath, t) ==
    [id |-> jobId, folderPath |-> folderPath, startTime |-> t,
     progress |-> Fin(0), status |-> "initializing", filesProcessed |-> 0,
     totalFiles |-> 0, currentFile |-> "", error |-> Null,
     zipPath |-> Undefined]

\* a createJob that builds the record and does not store it
createJob_NotStored(jobs, jobId, folderPath, t) == jobs

createJob(jobs, jobId, folderPath, t) ==
    (jobId :> NewJob(jobId, folderPath, t)) @@ jobs

\* an updateJob whose jobs share one record object
updateJob_Shared(jobs, jobId, updates) ==
    IF jobId \in DOMAIN jobs
    THEN [k \in DOMAIN jobs |-> updates @@ jobs[k]]
    ELSE jobs

\* Object.assign(job, updates) when the job exists
updateJob(jobs, jobId, updates) ==
    IF jobId \in DOMAIN jobs
    THEN [jobs EXCEPT ![jobId] = updates @@ @]
    ELSE jobs

\* errorJob without the setTimeout that deletes the job
errorJob_NoTimer(reg, jobId, message) ==
    IF jobId \in DOMAIN reg.jobs
    THEN [jobs |-> [reg.jobs EXCEPT
                      ![jobId] = [status |-> "error", error |-> message] @@ @],
          timers |-> reg.timers]
    ELSE reg

\* errorJob sets status and error and schedules the deletion of the job
errorJob(reg, jobId, message) ==
    IF jobId \in DOMAIN reg.jobs
    THEN [jobs |-> [reg.jobs EXCEPT
                      ![jobId] = [status |-> "error", error |-> message] @@ @],
          timers |-> [reg.timers EXCEPT ![jobId] = @ + 1]]
    ELSE reg

\* a completeJob that stores a record for a job it does not find
completeJob_Upsert(reg, jobId) ==
    [jobs |-> (jobId :> [status |-> "completed", progress |-> Fin(100)])
              @@ reg.jobs,
     timers |-> [reg.timers EXCEPT ![jobId] = @ + 1]]

\* completeJob is defined by the tracker; no code path calls it
completeJob(reg, jobId) ==
    IF jobId \in DOMAIN reg.jobs
    THEN [jobs |-> [reg.jobs EXCEPT
                      ![jobId] = [status |-> "completed", progress |-> Fin(100)] @@ @],
          timers |-> [reg.timers EXCEPT ![jobId] = @ + 1]]
    ELSE reg

\* this.activeJobs.get(jobId); the callers test the result with !job
getJob(jobs, jobId) == IF jobId \in DOMAIN jobs THEN jobs[jobId] ELSE Undefined

Missing(jobs, jobId) == jobId \notin DOMAIN jobs

\* ------------------------------------------------------- browser client
\* In the page a job is known by the order of the start-zip responses
\* (1, 2, ...) and an interval timer by the order of the setInterval
\* calls; 0 stands for null in currentZipJobId and zipProgressInterval.
NoJob == 0
NoTimer == 0

\* the FileServer object after its constructor, with the page's timers and
\* its requests in flight
NewClient ==
    [modalOpen |-> FALSE,          \* zipProgressModal has the class 'show'
     currentZipJobId |-> NoJob,
     zipProgressInterval |-> NoTimer,
     timers |-> {},                \* interval timers that are active
     setIntervals |-> 0,           \* setInterval calls made so far
     clicks |-> 0,                 \* 'Create ZIP' clicks made so far
     pendingStarts |-> 0,          \* start-zip requests without a response
     jobsStarted |-> 0,            \* start-zip responses that carried a jobId
     pendingPolls |-> {},          \* jobs of the polls without a response
     zipActions |-> FALSE,         \* the Download button is shown
     closeTimers |-> 0,            \* pending setTimeout(closeZipModal, 1000)
     done |-> {}]                  \* history: jobs a poll has ended for

\* no file request has been handled yet
NoRequest == [endpoint |-> "none"]

\* ------------------------------------------------------------------- Init
Init ==
    /\ now = 0
    /\ tempExists \in BOOLEAN
    /\ activeJobs = <<>>
    /\ evictTimers = [i \in AllIds |-> 0]
    /\ tasks = <<>>
    /\ files = {}
    /\ cleanupTimers = [p \in AllPaths |-> 0]
    /\ evicted = {}
    /\ client = NewClient
    /\ request = NoRequest

\* ------------------------------------------------- POST /api/start-zip
\* the task record of createZipWithProgress: its position, its locals
\* (zipPath, totalFiles, filesProcessed) and the state of its two streams
NewTask(foldername, t, pc) ==
    [pc |-> pc, foldername |-> foldername, zipPath |-> <<foldername, t>>,
     totalFiles |-> 0, filesProcessed |-> 0,
     next |-> 0,            \* entries the archive has handled so far
     errs |-> 0,            \* 'error' events of the archive and the output
     outErr |-> FALSE,      \* the output stream has emitted 'error'
     closed |-> FALSE,      \* the output stream has emitted 'close'
     settled |-> FALSE]     \* the catch block has run

\* Math.random() is taken not to repeat within one millisecond; which
\* value it yields does not matter, so the model takes the least unused one
FreshRand(t) ==
    LET unused == {r \in RandVals : <<t, r>> \notin DOMAIN tasks}
    IN  IF unused = {} THEN 0 ELSE CHOOSE r \in unused : \A q \in unused : r <= q

Counting == [status |-> "counting", currentFile |-> "Counting files..."]

\* the handler without its statSync().isDirectory() test
StartZipResponse_NoDirCheck(foldername, jobId) ==
    IF ~existsSync(foldername)
    THEN [code |-> 404, error |-> "Folder not found"]
    ELSE [code |-> 200, jobId |-> jobId, status |-> "started"]

\* the response of the handler; it depends on the pre-flight checks only
StartZipResponse(foldername, jobId) ==
    IF ~existsSync(foldername)
    THEN [code |-> 404, error |-> "Folder not found"]
    ELSE IF ~isDirectory(foldername)
    THEN [code |-> 400, error |-> "Path is not a directory"]
    ELSE [code |-> 200, jobId |-> jobId, status |-> "started"]

\* The handler reads the clock for the jobId (t, not before the last reading)
\* and runs createZipWithProgress up to its first await: with the temp
\* directory present that is the await of countFilesRecursive, after the
\* first updateJob; otherwise it is the await of fs.mkdir.  A request that
\* fails a pre-flight check returns before it touches any state.
StartJob(foldername, rnd, t) ==
    LET jobId == <<t, rnd>> IN
    /\ StartZipResponse(foldername, jobId).code = 200
    /\ t >= now
    /\ now' = t
    /\ activeJobs' =
         IF tempExists
         THEN updateJob(createJob(activeJobs, jobId, foldername, t),
                        jobId, Counting)
         ELSE createJob(activeJobs, jobId, foldername, t)
    /\ tasks' = (jobId :> NewTask(foldername, t,
                                  IF tempExists THEN "counting" ELSE "mkdir"))
                @@ tasks
    /\ UNCHANGED <<tempExists, evictTimers, files, cleanupTimers, evicted>>
    /\ UNCHANGED <<client, request>>


\* the requests the server receives: at most MaxJobs of them pass the
\* pre-flight checks, and Math.random() does not repeat
StartZip(foldername, rnd, t) ==
    /\ Cardinality(DOMAIN tasks) < MaxJobs
    /\ rnd = FreshRand(t)
    /\ StartJob(foldername, rnd, t)

\* ------------------------------------------------ createZipWithProgress
\* await fs.mkdir(tempDir, {recursive: true}) resolves
MkdirDone(jobId) ==
    /\ jobId \in DOMAIN tasks
    /\ tasks[jobId].pc = "mkdir"
    /\ tempExists' = TRUE
    /\ activeJobs' = updateJob(activeJobs, jobId, Counting)
    /\ tasks' = [tasks EXCEPT ![jobId].pc = "counting"]
    /\ UNCHANGED <<now, evictTimers, files, cleanupTimers, evicted>>
    /\ UNCHANGED <<client, request>>


\* a catch block that swallows the rejection of fs.mkdir
MkdirFail_Unrecorded(jobId) ==
    /\ jobId \in DOMAIN tasks
    /\ tasks[jobId].pc = "mkdir"
    /\ ~tempExists
    /\ tasks' = [tasks EXCEPT ![jobId].pc = "failed", ![jobId].settled = TRUE]
    /\ UNCHANGED <<now, tempExists, activeJobs, evictTimers, files,
                   cleanupTimers, evicted>>
    /\ UNCHANGED <<client, request>>


\* await fs.mkdir rejects: the catch block
MkdirFail(jobId) ==
    /\ jobId \in DOMAIN tasks
    /\ tasks[jobId].pc = "mkdir"
    /\ ~tempExists
    /\ LET reg == errorJob(Tracker, jobId, "mkdir failed")
       IN  activeJobs' = reg.jobs /\ evictTimers' = reg.timers
    /\ tasks' = [tasks EXCEPT ![jobId].pc = "failed", ![jobId].settled = TRUE]
    /\ UNCHANGED <<now, tempExists, files, cleanupTimers, evicted>>
    /\ UNCHANGED <<client, request>>


\* await countFilesRecursive resolves; the task then opens the output file,
\* registers its listeners, queues the directory and calls finalize()
CountDone(jobId) ==
    /\ jobId \in DOMAIN tasks
    /\ tasks[jobId].pc = "counting"
    /\ LET totalFiles == countFilesRecursive(Folder(tasks[jobId].foldername))
       IN  /\ activeJobs' = updateJob(activeJobs, jobId,
                                      [totalFiles |-> totalFiles, status |-> "zipping"])
           /\ tasks' = [tasks EXCEPT ![jobId].pc = "archiving",
                                     ![jobId].totalFiles = totalFiles]
    /\ files' = files \cup {tasks[jobId].zipPath}
    /\ UNCHANGED <<now, tempExists, evictTimers, cleanupTimers, evicted>>
    /\ UNCHANGED <<client, request>>


Entries(jobId) == ArchiveEntries(FolderItems(tasks[jobId].foldername))

\* an 'entry' listener that stores the number of entries still to come
OnEntry_CountsRemaining(jobId) ==
    /\ jobId \in DOMAIN tasks
    /\ tasks[jobId].pc = "archiving"
    /\ tasks[jobId].next < Len(Entries(jobId))
    /\ LET filesProcessed == Len(Entries(jobId)) - tasks[jobId].next
           progress == RoundPercent(filesProcessed, tasks[jobId].totalFiles)
           currentFile == Entries(jobId)[tasks[jobId].next + 1]
       IN  /\ activeJobs' = updateJob(activeJobs, jobId,
                                      [progress |-> progress,
                                       filesProcessed |-> filesProcessed,
                                       currentFile |-> currentFile,
                                       status |-> "zipping"])
           /\ tasks' = [tasks EXCEPT ![jobId].filesProcessed = filesProcessed,
                                     ![jobId].next = @ + 1]
    /\ UNCHANGED <<now, tempExists, evictTimers, files, cleanupTimers, evicted>>
    /\ UNCHANGED <<client, request>>


\* archive.on('entry')
OnEntry(jobId) ==
    /\ jobId \in DOMAIN tasks
    /\ tasks[jobId].pc = "archiving"
    /\ tasks[jobId].next < Len(Entries(jobId))
    /\ LET filesProcessed == tasks[jobId].filesProcessed + 1
           progress == RoundPercent(filesProcessed, tasks[jobId].totalFiles)
           currentFile == Entries(jobId)[tasks[jobId].next + 1]
       IN  /\ activeJobs' = updateJob(activeJobs, jobId,
                                      [progress |-> progress,
                                       filesProcessed |-> filesProcessed,
                                       currentFile |-> currentFile,
                                       status |-> "zipping"])
           /\ tasks' = [tasks EXCEPT ![jobId].filesProcessed = filesProcessed,
                                     ![jobId].next = @ + 1]
    /\ UNCHANGED <<now, tempExists, evictTimers, files, cleanupTimers, evicted>>
    /\ UNCHANGED <<client, request>>


\* a 'close' listener that leaves the job record alone
OnClose_NoUpdate(jobId) ==
    /\ jobId \in DOMAIN tasks
    /\ tasks[jobId].pc = "archiving"
    /\ ~tasks[jobId].closed
    /\ tasks[jobId].next = Len(Entries(jobId)) \/ tasks[jobId].outErr
    /\ tasks' = [tasks EXCEPT ![jobId].closed = TRUE]
    /\ UNCHANGED <<now, tempExists, activeJobs, evictTimers, files,
                   cleanupTimers, evicted>>
    /\ UNCHANGED <<client, request>>


\* output.on('close'): after the archive has ended, or after the stream
\* was destroyed by an error
OnClose(jobId) ==
    /\ jobId \in DOMAIN tasks
    /\ tasks[jobId].pc = "archiving"
    /\ ~tasks[jobId].closed
    /\ tasks[jobId].next = Len(Entries(jobId)) \/ tasks[jobId].outErr
    /\ activeJobs' = updateJob(activeJobs, jobId,
                               [zipPath |-> tasks[jobId].zipPath,
                                status |-> "completed",
                                progress |-> Fin(100),
                                currentFile |-> "Completed"])
    /\ tasks' = [tasks EXCEPT ![jobId].closed = TRUE]
    /\ UNCHANGED <<now, tempExists, evictTimers, files, cleanupTimers, evicted>>
    /\ UNCHANGED <<client, request>>


\* archive.on('error').  When the error comes from the archive's module,
\* the promise of finalize() rejects with it too, and the catch block runs
\* as a microtask right behind the listener: errorJob is called twice.
OnArchiveError(jobId, rejects) ==
    /\ jobId \in DOMAIN tasks
    /\ tasks[jobId].pc = "archiving"
    /\ ~tasks[jobId].closed
    /\ tasks[jobId].errs < MaxErrors
    /\ rejects => ~tasks[jobId].settled
    /\ LET listener == errorJob(Tracker, jobId, "archive failed")
           reg == IF rejects THEN errorJob(listener, jobId, "archive failed")
                  ELSE listener
       IN  activeJobs' = reg.jobs /\ evictTimers' = reg.timers
    /\ tasks' = [tasks EXCEPT ![jobId].errs = @ + 1,
                              ![jobId].settled = @ \/ rejects]
    /\ UNCHANGED <<now, tempExists, files, cleanupTimers, evicted>>
    /\ UNCHANGED <<client, request>>


\* output.on('error')
OnOutputError(jobId) ==
    /\ jobId \in DOMAIN tasks
    /\ tasks[jobId].pc = "archiving"
    /\ ~tasks[jobId].closed
    /\ ~tasks[jobId].outErr
    /\ tasks[jobId].errs < MaxErrors
    /\ LET reg == errorJob(Tracker, jobId, "write failed")
       IN  activeJobs' = reg.jobs /\ evictTimers' = reg.timers
    /\ tasks' = [tasks EXCEPT ![jobId].outErr = TRUE, ![jobId].errs = @ + 1]
    /\ UNCHANGED <<now, tempExists, files, cleanupTimers, evicted>>
    /\ UNCHANGED <<client, request>>


\* ------------------------------------------------------------- timers
\* an eviction that marks the record instead of removing it
deleteJob_Tombstone(jobs, jobId) ==
    IF jobId \in DOMAIN jobs
    THEN [jobs EXCEPT ![jobId] = [status |-> "evicted"] @@ @]
    ELSE jobs

\* this.activeJobs.delete(jobId)
deleteJob(jobs, jobId) == [k \in DOMAIN jobs \ {jobId} |-> jobs[k]]

\* setTimeout(() => this.activeJobs.delete(jobId), 30000) fires
EvictTimerFires(jobId) ==
    /\ evictTimers[jobId] > 0
    /\ evictTimers' = [evictTimers EXCEPT ![jobId] = @ - 1]
    /\ activeJobs' = deleteJob(activeJobs, jobId)
    /\ evicted' = evicted \cup {jobId}
    /\ UNCHANGED <<now, tempExists, tasks, files, cleanupTimers>>
    /\ UNCHANGED <<client, request>>


\* setTimeout(() => fsSync.unlink(zipPath, ...), 5000) fires
CleanupTimerFires(zipPath) ==
    /\ cleanupTimers[zipPath] > 0
    /\ cleanupTimers' = [cleanupTimers EXCEPT ![zipPath] = @ - 1]
    /\ files' = files \ {zipPath}
    /\ UNCHANGED <<now, tempExists, activeJobs, evictTimers, tasks, evicted>>
    /\ UNCHANGED <<client, request>>


\* ------------------------------------------- GET /api/zip-progress/:jobId
ZipProgressResponse(jobs, jobId) ==
    IF Missing(jobs, jobId)
    THEN [code |-> 404, error |-> "Job not found"]
    ELSE [code |-> 200, job |-> getJob(jobs, jobId)]

\* ------------------------------------------- GET /api/download-zip/:jobId
\* the handler without its test of job.status
DownloadZipResponse_NoStatusCheck(jobs, disk, jobId) ==
    IF Missing(jobs, jobId)
    THEN [code |-> 404, error |-> "Job not found"]
    ELSE IF getJob(jobs, jobId).zipPath \notin disk
    THEN [code |-> 404, error |-> "ZIP file not found"]
    ELSE [code |-> 200, file |-> getJob(jobs, jobId).zipPath]

DownloadZipResponse(jobs, disk, jobId) ==
    IF Missing(jobs, jobId)
    THEN [code |-> 404, error |-> "Job not found"]
    ELSE IF getJob(jobs, jobId).status # "completed"
    THEN [code |-> 400, error |-> "Job not completed"]
    ELSE IF getJob(jobs, jobId).zipPath \notin disk
    THEN [code |-> 404, error |-> "ZIP file not found"]
    ELSE [code |-> 200, file |-> getJob(jobs, jobId).zipPath]

\* The handler changes state only when it sends the file and res.download
\* calls back without an error: it then sets the timer that unlinks the file.
DownloadZip(jobId) ==
    LET response == DownloadZipResponse(activeJobs, files, jobId) IN
    /\ response.code = 200
    /\ cleanupTimers[response.file] < MaxDownloads
    /\ cleanupTimers' = [cleanupTimers EXCEPT ![response.file] = @ + 1]
    /\ UNCHANGED <<now, tempExists, activeJobs, evictTimers, tasks, files, evicted>>
    /\ UNCHANGED <<client, request>>


Next ==
    \/ \E foldername \in RequestNames, rnd \in RandVals, t \in 0..MaxClock :
          StartZip(foldername, rnd, t)
    \/ \E jobId \in AllIds : MkdirDone(jobId)
    \/ \E jobId \in AllIds : MkdirFail(jobId)
    \/ \E jobId \in AllIds : CountDone(jobId)
    \/ \E jobId \in AllIds : OnEntry(jobId)
    \/ \E jobId \in AllIds : OnClose(jobId)
    \/ \E jobId \in AllIds, rejects \in BOOLEAN : OnArchiveError(jobId, rejects)
    \/ \E jobId \in AllIds : OnOutputError(jobId)
    \/ \E jobId \in AllIds : EvictTimerFires(jobId)
    \/ \E zipPath \in AllPaths : CleanupTimerFires(zipPath)
    \/ \E jobId \in AllIds : DownloadZip(jobId)

Spec == Init /\ [][Next]_vars

\* Node's event loop runs every due timer and every pending callback; the
\* archiver and the file system make progress.  Errors and requests are
\* not forced to happen.
Fairness ==
    /\ \A jobId \in AllIds : WF_vars(EvictTimerFires(jobId))
    /\ \A zipPath \in AllPaths : WF_vars(CleanupTimerFires(zipPath))
    /\ \A jobId \in AllIds : WF_vars(MkdirDone(jobId))
    /\ \A jobId \in AllIds : WF_vars(CountDone(jobId))
    /\ \A jobId \in AllIds : WF_vars(OnEntry(jobId))
    /\ \A jobId \in AllIds : WF_vars(OnClose(jobId))

FairSpec == Spec /\ Fairness

\* ------------------------------------------------------ concurrent jobs
\* One job more than in Spec, all on folders of PairFolders, so that two
\* jobs are in the registry together.
PairFolders == {"dirs"}

StartZipPair(foldername, rnd, t) ==
    /\ foldername \in PairFolders
    /\ Cardinality(DOMAIN tasks) < MaxJobs + 1
    /\ rnd = FreshRand(t)
    /\ StartJob(foldername, rnd, t)

PairNext ==
    \/ \E foldername \in RequestNames, rnd \in RandVals, t \in 0..MaxClock :
          StartZipPair(foldername, rnd, t)
    \/ \E jobId \in AllIds : MkdirDone(jobId)
    \/ \E jobId \in AllIds : MkdirFail(jobId)
    \/ \E jobId \in AllIds : CountDone(jobId)
    \/ \E jobId \in AllIds : OnEntry(jobId)
    \/ \E jobId \in AllIds : OnClose(jobId)
    \/ \E jobId \in AllIds, rejects \in BOOLEAN : OnArchiveError(jobId, rejects)
    \/ \E jobId \in AllIds : OnOutputError(jobId)
    \/ \E jobId \in AllIds : EvictTimerFires(jobId)
    \/ \E zipPath \in AllPaths : CleanupTimerFires(zipPath)
    \/ \E jobId \in AllIds : DownloadZip(jobId)

PairSpec == Init /\ [][PairNext]_vars

\* ------------------------------------------------------ the file count
\* The counting phase of jobs on the folders of WalkFolders: the task up
\* to the moment countFilesRecursive has returned and totalFiles is set.
StartZipWalk(foldername, rnd, t) ==
    /\ foldername \in WalkFolders
    /\ Cardinality(DOMAIN tasks) < MaxJobs + 1
    /\ rnd = FreshRand(t)
    /\ StartJob(foldername, rnd, t)

WalkNext ==
    \/ \E foldername \in WalkFolders, rnd \in RandVals, t \in 0..MaxClock :
          StartZipWalk(foldername, rnd, t)
    \/ \E jobId \in AllIds : MkdirDone(jobId)
    \/ \E jobId \in AllIds : MkdirFail(jobId)
    \/ \E jobId \in AllIds : CountDone(jobId)

WalkSpec == Init /\ [][WalkNext]_vars

\* ------------------------------------------------------- file requests
\* A path is a sequence of segments and a segment a sequence of
\* characters, so that String.startsWith can be computed on the text.
DotDot == <<".", ".">>
Segments == {DotDot, <<"t">>, <<"t", "x">>, <<"a">>}

\* path.resolve(TARGET_DIR): the served directory /t (its sibling is /tx)
absoluteTargetDir == << <<"t">> >>

\* the text of an absolute path
RECURSIVE PathString(_)
PathString(path) ==
    IF path = <<>> THEN <<>>
    ELSE <<"/">> \o Head(path) \o PathString(Tail(path))

\* String.prototype.startsWith
startsWith(str, prefix) ==
    /\ Len(prefix) <= Len(str)
    /\ SubSeq(str, 1, Len(prefix)) = prefix

\* the normalisation of path.resolve and path.join: a '..' segment takes
\* away the segment before it, and nothing at the root
RECURSIVE Normalize(_, _)
Normalize(done, rest) ==
    IF rest = <<>> THEN done
    ELSE IF Head(rest) = DotDot
    THEN Normalize(IF done = <<>> THEN <<>> ELSE SubSeq(done, 1, Len(done) - 1),
                   Tail(rest))
    ELSE Normalize(Append(done, Head(rest)), Tail(rest))

resolve(base, relativePath) == Normalize(base, relativePath)
join(dir, name) == Normalize(dir, name)

\* getValidatedPath: the resolved path, or the 'Access denied' exception
getValidatedPath(relativePath) ==
    LET fullPath == resolve(absoluteTargetDir, relativePath) IN
    IF ~startsWith(PathString(fullPath), PathString(absoluteTargetDir))
    THEN [ok |-> FALSE, path |-> <<>>]
    ELSE [ok |-> TRUE, path |-> fullPath]

\* path.join(getValidatedPath(req.query.path), req.params.filename)
FilePath(currentPath, filename) ==
    LET currentDir == getValidatedPath(currentPath) IN
    IF currentDir.ok
    THEN [ok |-> TRUE, path |-> join(currentDir.path, filename)]
    ELSE currentDir

\* the values of req.query.path
RECURSIVE PathsUpTo(_)
PathsUpTo(n) ==
    IF n = 0 THEN {<<>>}
    ELSE PathsUpTo(n - 1)
         \cup {Append(p, seg) : p \in PathsUpTo(n - 1), seg \in Segments}

QueryPaths == PathsUpTo(MaxPathLen)

\* the values of req.params.filename (Express decodes %2F in it) ...
ParamNames == {<< <<"a">> >>, <<DotDot>>, <<DotDot, <<"t", "x">> >>}
\* ... and of file.originalname, which multer cuts down to a base name
UploadNames == {<< <<"a">> >>}

Handled(endpoint, currentPath, filename, result) ==
    /\ request' = [endpoint |-> endpoint, currentPath |-> currentPath,
                   filename |-> filename, ok |-> result.ok,
                   path |-> result.path]
    /\ UNCHANGED <<zipVars, client>>

\* GET /api/files?path= : fs.readdir on the validated path
ListFiles(currentPath) ==
    Handled("files", currentPath, <<>>, getValidatedPath(currentPath))

\* GET /api/view/:filename : res.sendFile
ViewFile(currentPath, filename) ==
    Handled("view", currentPath, filename, FilePath(currentPath, filename))

\* GET /api/download/:filename : res.download
DownloadFile(currentPath, filename) ==
    Handled("download", currentPath, filename, FilePath(currentPath, filename))

\* POST /api/upload : fs.writeFile
UploadFile(currentPath, filename) ==
    Handled("upload", currentPath, filename, FilePath(currentPath, filename))

\* POST /api/start-zip/:foldername : the folder handed to the archiver
StartZipFolder(currentPath, foldername) ==
    Handled("start-zip", currentPath, foldername,
            FilePath(currentPath, foldername))

PathNext ==
    \/ \E currentPath \in QueryPaths : ListFiles(currentPath)
    \/ \E currentPath \in QueryPaths, filename \in ParamNames :
          ViewFile(currentPath, filename)
    \/ \E currentPath \in QueryPaths, filename \in ParamNames :
          DownloadFile(currentPath, filename)
    \/ \E currentPath \in QueryPaths, filename \in UploadNames :
          UploadFile(currentPath, filename)
    \/ \E currentPath \in QueryPaths, foldername \in ParamNames :
          StartZipFolder(currentPath, foldername)

PathSpec == Init /\ [][PathNext]_vars

\* ------------------------------------------------ browser client: ZIP
\* 'Create ZIP' button of a folder: startZipDownload up to its await of
\* fetch.  The open dialog covers the file list.
StartZipDownload ==
    /\ ~client.modalOpen
    /\ client.clicks < MaxStarts
    /\ client' = [client EXCEPT !.modalOpen = TRUE,
                                !.zipActions = FALSE,
                                !.clicks = @ + 1,
                                !.pendingStarts = @ + 1]
    /\ UNCHANGED <<zipVars, request>>

\* the start-zip response is ok: the rest of startZipDownload, which ends
\* with startZipProgressPolling and its setInterval
StartZipStarted ==
    /\ client.pendingStarts > 0
    /\ client' = [client EXCEPT !.pendingStarts = @ - 1,
                                !.jobsStarted = @ + 1,
                                !.currentZipJobId = client.jobsStarted + 1,
                                !.setIntervals = @ + 1,
                                !.zipProgressInterval = client.setIntervals + 1,
                                !.timers = @ \cup {client.setIntervals + 1}]
    /\ UNCHANGED <<zipVars, request>>

\* the start-zip request fails: the catch block of startZipDownload
StartZipFailed ==
    /\ client.pendingStarts > 0
    /\ client' = [client EXCEPT !.pendingStarts = @ - 1]
    /\ UNCHANGED <<zipVars, request>>

\* an interval timer fires: the callback up to its await of
\* fetch(`/api/zip-progress/${this.currentZipJobId}`)
PollTick(timer) ==
    /\ timer \in client.timers
    /\ client' = [client EXCEPT !.pendingPolls = @ \cup {client.currentZipJobId}]
    /\ UNCHANGED <<zipVars, request>>

\* clearInterval(this.zipProgressInterval); this.zipProgressInterval = null
StopPolling(c) ==
    [c EXCEPT !.timers = @ \ {c.zipProgressInterval},
              !.zipProgressInterval = NoTimer]

\* a poll is answered with the job record: updateZipProgress, and the
\* timer is cleared when the status is completed or error
PollAnswered(jobId, status) ==
    /\ jobId \in client.pendingPolls
    /\ jobId # NoJob
    /\ client' =
         LET c == [client EXCEPT !.pendingPolls = @ \ {jobId},
                                 !.zipActions = @ \/ status = "completed"]
         IN  IF status \in {"completed", "error"}
             THEN [StopPolling(c) EXCEPT !.done = @ \cup {jobId}]
             ELSE c
    /\ UNCHANGED <<zipVars, request>>

\* a poll fails (response not ok: 404 for an unknown or null jobId, or a
\* network error): the catch block of the callback
PollFailed(jobId) ==
    /\ jobId \in client.pendingPolls
    /\ client' = [StopPolling([client EXCEPT !.pendingPolls = @ \ {jobId}])
                    EXCEPT !.done = @ \cup ({jobId} \ {NoJob})]
    /\ UNCHANGED <<zipVars, request>>

\* closeZipModal
CloseZipModalBody(c) ==
    [StopPolling(c) EXCEPT !.modalOpen = FALSE, !.currentZipJobId = NoJob]

\* the user closes the dialog (close buttons, click on the backdrop,
\* Escape): possible while the dialog is shown
CloseZipModal ==
    /\ client.modalOpen
    /\ client' = CloseZipModalBody(client)
    /\ UNCHANGED <<zipVars, request>>

\* 'Download' button of the dialog, shown after a completed response
DownloadZipClick ==
    /\ client.modalOpen
    /\ client.zipActions
    /\ client.currentZipJobId # NoJob
    /\ client.closeTimers < MaxDownloads
    /\ client' = [client EXCEPT !.closeTimers = @ + 1]
    /\ UNCHANGED <<zipVars, request>>

\* setTimeout(() => this.closeZipModal(), 1000) fires
CloseTimerFires ==
    /\ client.closeTimers > 0
    /\ client' = [CloseZipModalBody(client) EXCEPT !.closeTimers = @ - 1]
    /\ UNCHANGED <<zipVars, request>>

ClientNext ==
    \/ StartZipDownload
    \/ StartZipStarted
    \/ StartZipFailed
    \/ \E timer \in 1..MaxStarts : PollTick(timer)
    \/ \E jobId \in 1..MaxStarts, status \in {"zipping", "completed", "error"} :
          PollAnswered(jobId, status)
    \/ \E jobId \in 0..MaxStarts : PollFailed(jobId)
    \/ CloseZipModal
    \/ DownloadZipClick
    \/ CloseTimerFires

ClientSpec == Init /\ [][ClientNext]_vars

TypeOK ==
    /\ now \in 0..MaxClock
    /\ DOMAIN activeJobs \subseteq AllIds
    /\ DOMAIN tasks \subseteq AllIds
    /\ evicted \subseteq DOMAIN tasks
    /\ \A jobId \in DOMAIN activeJobs :
         activeJobs[jobId].status \in
           {"initializing", "counting", "zipping", "completed", "error"}

\* ================================================================= claims
Terminal == {"completed", "error"}

\* the status changes the protocol of section 4.4 allows
AllowedStatusChange(from, to) ==
    \/ from = to
    \/ from = "initializing" /\ to = "counting"
    \/ from = "counting" /\ to = "zipping"
    \/ from = "zipping" /\ to = "completed"
    \/ from \in {"initializing", "counting", "zipping"} /\ to = "error"

\* C1: the status of a job changes only along initializing -> counting ->
\* zipping -> completed, or from a non-terminal status to error; a job that
\* is completed or error never shows another status afterwards.
C1_StatusOnlyMovesForward ==
    [][\A jobId \in DOMAIN activeJobs \cap DOMAIN activeJobs' :
         AllowedStatusChange(activeJobs[jobId].status, activeJobs'[jobId].status)]_vars

\* the steps of createZipWithProgress that call updateJob
UpdateJobStep(jobId) ==
    MkdirDone(jobId) \/ CountDone(jobId) \/ OnEntry(jobId) \/ OnClose(jobId)

\* C2: updateJob called on a job that exists and whose status is already
\* completed or error changes no field of that job's record.
C2_UpdateJobLeavesTerminalJob ==
    [][\A jobId \in DOMAIN activeJobs :
         (activeJobs[jobId].status \in Terminal /\ UpdateJobStep(jobId))
         => activeJobs'[jobId] = activeJobs[jobId]]_vars

\* C3: every job that reaches status completed is eventually removed from
\* the registry, whether or not a client polls it or fetches its artifact.
C3_CompletedJobIsEvicted ==
    \A jobId \in AllIds :
        (jobId \in DOMAIN activeJobs /\ activeJobs[jobId].status = "completed")
        ~> (jobId \notin DOMAIN activeJobs)

\* the steps of createZipWithProgress that call errorJob, with the message
ErrorJobStep(jobId, message) ==
    \/ message = "mkdir failed" /\ MkdirFail(jobId)
    \/ message = "archive failed" /\ \E rejects \in BOOLEAN : OnArchiveError(jobId, rejects)
    \/ message = "write failed" /\ OnOutputError(jobId)

Messages == {"mkdir failed", "archive failed", "write failed"}

\* C4: errorJob on an existing job sets its status to error and records the
\* failure's message, and the job showing that status is eventually removed
\* from the registry by the eviction timer errorJob has set.
C4_ErrorJobRecordsAndEvicts ==
    /\ [][\A jobId \in DOMAIN activeJobs, message \in Messages :
            ErrorJobStep(jobId, message)
            => /\ jobId \in DOMAIN activeJobs'
               /\ activeJobs'[jobId].status = "error"
               /\ activeJobs'[jobId].error = message
               /\ evictTimers'[jobId] > evictTimers[jobId]]_vars
    /\ \A jobId \in AllIds :
            (jobId \in DOMAIN activeJobs /\ activeJobs[jobId].status = "error")
            ~> (jobId \notin DOMAIN activeJobs)

\* a job has failed, its timer has fired and the record is gone
C4_Witness ==
    \E jobId \in DOMAIN tasks :
        /\ tasks[jobId].errs > 0
        /\ jobId \in evicted
        /\ jobId \notin DOMAIN activeJobs
        /\ evictTimers[jobId] = 0

\* C5: the progress value equals 100 if and only if the status is completed.
C5_Progress100IffCompleted ==
    \A jobId \in DOMAIN activeJobs :
        (activeJobs[jobId].progress = Fin(100))
        <=> (activeJobs[jobId].status = "completed")

\* C6: whenever totalFiles is non-zero, filesProcessed <= totalFiles.
C6_ProcessedAtMostTotal ==
    \A jobId \in DOMAIN activeJobs :
        activeJobs[jobId].totalFiles # 0
        => activeJobs[jobId].filesProcessed <= activeJobs[jobId].totalFiles

\* C7: the progress value is always an integer between 0 and 100.
C7_ProgressInRange ==
    \A jobId \in DOMAIN activeJobs :
        /\ activeJobs[jobId].progress.finite
        /\ activeJobs[jobId].progress.n \in 0..100

\* C8: for a job whose source directory is empty, progress is 100 in the
\* first state in which the status is zipping.
C8_EmptyFolderEntersZippingAt100 ==
    [][\A jobId \in DOMAIN activeJobs \cap DOMAIN activeJobs' :
         (/\ FolderItems(activeJobs'[jobId].folderPath) = <<>>
          /\ activeJobs[jobId].status # "zipping"
          /\ activeJobs'[jobId].status = "zipping")
         => activeJobs'[jobId].progress = Fin(100)]_vars

NotReady == [code |-> 400, error |-> "Job not completed"]
JobNotFound == [code |-> 404, error |-> "Job not found"]

\* C9: fetch-artifact for a job that is in the registry with a status other
\* than completed answers not-ready, sends no file, and changes neither the
\* job record nor the artifact files (the handler takes no step).
C9_FetchBeforeCompletedIsNotReady ==
    \A jobId \in DOMAIN activeJobs :
        activeJobs[jobId].status # "completed"
        => /\ DownloadZipResponse(activeJobs, files, jobId) = NotReady
           /\ ~ENABLED DownloadZip(jobId)

\* a job that is not completed while its artifact file is on disk
C9_Witness ==
    \E jobId \in DOMAIN activeJobs :
        /\ activeJobs[jobId].status \in {"zipping", "error"}
        /\ tasks[jobId].zipPath \in files

\* C10: for an evicted job, get-progress and fetch-artifact answer exactly
\* what they answer for an identifier that was never created: not found.
C10_EvictedLooksNeverCreated ==
    \A jobId \in evicted, never \in AllIds \ DOMAIN tasks :
        /\ ZipProgressResponse(activeJobs, jobId) = JobNotFound
        /\ ZipProgressResponse(activeJobs, jobId) = ZipProgressResponse(activeJobs, never)
        /\ DownloadZipResponse(activeJobs, files, jobId) = JobNotFound
        /\ DownloadZipResponse(activeJobs, files, jobId)
             = DownloadZipResponse(activeJobs, files, never)

\* a job has been evicted while its artifact file is still on disk
C10_Witness ==
    \E jobId \in evicted :
        /\ jobId \notin DOMAIN activeJobs
        /\ tasks[jobId].zipPath \in files
        /\ AllIds \ DOMAIN tasks # {}

\* ---------------------------------------------------------------- C11
BadPath(foldername) == ~existsSync(foldername) \/ ~isDirectory(foldername)

\* C11: start-archive on a path that does not exist or is not a directory
\* answers with an error (404 or 400) and takes no step: the handler is not
\* enabled for it whatever the clock and Math.random() give, so it creates
\* no job and starts no background task; every job and every task there is
\* was created for an existing directory.
C11_BadPathCreatesNothing ==
    /\ \A foldername \in RequestNames, jobId \in AllIds :
          BadPath(foldername)
          => /\ StartZipResponse(foldername, jobId).code \in {400, 404}
             /\ ~ENABLED StartJob(foldername, jobId[2], jobId[1])
    /\ \A jobId \in DOMAIN tasks : ~BadPath(tasks[jobId].foldername)
    /\ DOMAIN activeJobs \subseteq DOMAIN tasks

\* a job is running while requests for a missing path and for a file are
\* refused
C11_Witness ==
    /\ \E jobId \in DOMAIN activeJobs : activeJobs[jobId].status = "zipping"
    /\ StartZipResponse("missing", <<now, 1>>).code = 404
    /\ StartZipResponse("notes.txt", <<now, 1>>).code = 400

\* ---------------------------------------------------------------- C12
AllWritten(jobId) ==
    /\ tasks[jobId].next = Len(Entries(jobId))
    /\ ~tasks[jobId].outErr
    /\ tasks[jobId].closed

\* C12: a job is completed only when every entry of its folder has been
\* written and the output stream has closed without a write error; so
\* neither a poll reads completed nor a fetch starts sending before that.
C12_CompletedOnlyAfterAllWritten ==
    \A jobId \in DOMAIN activeJobs :
        /\ ZipProgressResponse(activeJobs, jobId).job.status = "completed"
             => AllWritten(jobId)
        /\ ENABLED DownloadZip(jobId) => AllWritten(jobId)

\* ---------------------------------------------------------------- C13
\* the background task of jobId has met an I/O failure
Failed(jobId) ==
    /\ jobId \in DOMAIN tasks
    /\ tasks[jobId].errs > 0 \/ tasks[jobId].pc = "failed"

\* C13: after an I/O failure of a job its artifact file is eventually not
\* on disk any more.
C13_FailedJobArtifactRemoved ==
    \A jobId \in AllIds :
        Failed(jobId) ~> (/\ jobId \in DOMAIN tasks
                          /\ tasks[jobId].zipPath \notin files)

\* ---------------------------------------------------------------- C14
\* C14: a job that has failed has status error and a message for as long
\* as its record exists, and fetch-artifact never succeeds for it: the
\* answer is not-ready with the record, not-found without it.
C14_FailedJobStaysError ==
    \A jobId \in DOMAIN tasks :
        Failed(jobId)
        => /\ jobId \in DOMAIN activeJobs
                => /\ activeJobs[jobId].status = "error"
                   /\ activeJobs[jobId].error \in Messages
                   /\ DownloadZipResponse(activeJobs, files, jobId) = NotReady
           /\ jobId \notin DOMAIN activeJobs
                => DownloadZipResponse(activeJobs, files, jobId) = JobNotFound

\* ---------------------------------------------------------------- C15
\* a fetch of the job's artifact has succeeded (its unlink timer is set)
\* and the record is still in the registry
Claimed(jobId) ==
    /\ jobId \in DOMAIN activeJobs
    /\ cleanupTimers[tasks[jobId].zipPath] > 0

\* C15: a job whose artifact has been fetched is eventually removed from
\* the registry.
C15_ClaimedJobIsEvicted ==
    \A jobId \in AllIds :
        Claimed(jobId) ~> (jobId \notin DOMAIN activeJobs)

\* ---------------------------------------------------------------- C16
\* C16: the artifact of a completed job is eventually deleted from disk
\* unless a client fetches it.
C16_UnfetchedArtifactDeleted ==
    \A jobId \in AllIds :
        (/\ jobId \in DOMAIN activeJobs
         /\ activeJobs[jobId].status = "completed"
         /\ tasks[jobId].zipPath \in files)
        ~> (/\ jobId \in DOMAIN tasks
            /\ \/ tasks[jobId].zipPath \notin files
               \/ cleanupTimers[tasks[jobId].zipPath] > 0)

\* ---------------------------------------------------------------- C17
\* the step is an operation on job b: its creation, a callback of its
\* background task, its eviction timer, a fetch of its artifact or the
\* cleanup of its artifact
OpOn(b) ==
    \/ \E foldername \in RequestNames : StartJob(foldername, b[2], b[1])
    \/ MkdirDone(b)
    \/ MkdirFail(b)
    \/ CountDone(b)
    \/ OnEntry(b)
    \/ OnClose(b)
    \/ \E rejects \in BOOLEAN : OnArchiveError(b, rejects)
    \/ OnOutputError(b)
    \/ EvictTimerFires(b)
    \/ DownloadZip(b)
    \/ b \in DOMAIN tasks /\ CleanupTimerFires(tasks[b].zipPath)

\* C17: an operation on job b leaves the record of every other job a as
\* it was, field for field, and leaves it in the registry.
C17_JobsAreIsolated ==
    [][\A a \in DOMAIN activeJobs : \A b \in AllIds \ {a} :
          OpOn(b) => /\ a \in DOMAIN activeJobs'
                     /\ activeJobs'[a] = activeJobs[a]]_vars

\* two jobs are in the registry, one has made progress and then failed
\* while the other has not processed any entry yet
C17_Witness ==
    \E a, b \in DOMAIN activeJobs :
        /\ a # b
        /\ activeJobs[a].status = "zipping"
        /\ activeJobs[a].filesProcessed = 0
        /\ activeJobs[b].status = "error"
        /\ activeJobs[b].filesProcessed > 0

\* ---------------------------------------------------------------- C18
\* C18: no start-archive call can be given an identifier that an earlier
\* call received: whatever the clock and Math.random() return, the
\* handler does not create a job under an identifier already issued.
C18_IdentifiersNeverRepeat ==
    \A jobId \in DOMAIN tasks, foldername \in FolderNames :
        ~ENABLED StartJob(foldername, jobId[2], jobId[1])

\* ---------------------------------------------------------------- C19
\* the background task of jobId has opened its output file and the
\* stream has not closed yet
Writing(jobId) ==
    /\ tasks[jobId].pc = "archiving"
    /\ ~tasks[jobId].closed

\* C19: two jobs on folders of the same name that are writing at the
\* same time write to different artifact paths.
C19_ArtifactPathsDistinct ==
    \A a, b \in DOMAIN tasks :
        (/\ a # b
         /\ tasks[a].foldername = tasks[b].foldername
         /\ Writing(a)
         /\ Writing(b))
        => tasks[a].zipPath # tasks[b].zipPath

\* ---------------------------------------------------------------- C21
\* C21: with the callbacks and timers scheduled fairly, every job in the
\* registry that has not met a failure (which set its status to error)
\* reaches status completed or error, and from some point on no job is
\* in the registry with another status.
C21_JobReachesTerminalStatus ==
    \A jobId \in AllIds :
        /\ (jobId \in DOMAIN activeJobs /\ ~Failed(jobId))
             ~> (/\ jobId \in DOMAIN activeJobs
                 /\ activeJobs[jobId].status \in Terminal)
        /\ <>[](jobId \in DOMAIN activeJobs
                  => activeJobs[jobId].status \in Terminal)

\* a job has gone through all its entries and is completed, another run
\* ends in error
C21_Witness ==
    \E jobId \in DOMAIN activeJobs :
        /\ activeJobs[jobId].status = "completed"
        /\ activeJobs[jobId].filesProcessed = 3
        /\ tasks[jobId].errs = 0

\* ---------------------------------------------------------------- C22
\* the folder holds files only
Flat(f) == \A i \in 1..Len(FolderItems(f)) : ~FolderItems(f)[i].isDir

\* C22: when the output of a job on a folder of N files and no
\* subdirectory has closed without a failure, the archive has emitted
\* exactly N entry events and the job is completed with
\* filesProcessed = N = totalFiles.
C22_FlatFolderCountsMatch ==
    \A jobId \in DOMAIN activeJobs :
        LET N == Len(FolderItems(tasks[jobId].foldername)) IN
        (/\ Flat(tasks[jobId].foldername)
         /\ tasks[jobId].closed
         /\ ~Failed(jobId))
        => /\ tasks[jobId].next = N
           /\ tasks[jobId].filesProcessed = N
           /\ activeJobs[jobId].status = "completed"
           /\ activeJobs[jobId].filesProcessed = N
           /\ activeJobs[jobId].totalFiles = N

\* the job on the three files of photos has completed without a failure
C22_Witness ==
    \E jobId \in DOMAIN activeJobs :
        /\ tasks[jobId].foldername = "photos"
        /\ tasks[jobId].closed
        /\ ~Failed(jobId)
        /\ activeJobs[jobId].filesProcessed = 3

\* ---------------------------------------------------------------- C23
\* (status, filesProcessed, totalFiles, progress) of the example scenario
PhotosSequence ==
    { <<"initializing", 0, 0, Fin(0)>>,
      <<"counting", 0, 3, Fin(0)>>,
      <<"zipping", 1, 3, Fin(33)>>,
      <<"zipping", 2, 3, Fin(67)>>,
      <<"completed", 3, 3, Fin(100)>> }

\* C23: the record of a job on the three files of photos that meets no
\* failure only ever holds a combination of the example scenario:
\* counting 0/3, zipping 1/3 at 33%, zipping 2/3 at 67%, completed 3/3 at
\* 100% (and the initializing record before them).
C23_PhotosProgressSequence ==
    \A jobId \in DOMAIN activeJobs :
        (tasks[jobId].foldername = "photos" /\ ~Failed(jobId))
        => <<activeJobs[jobId].status, activeJobs[jobId].filesProcessed,
             activeJobs[jobId].totalFiles, activeJobs[jobId].progress>>
           \in PhotosSequence

\* ---------------------------------------------------------------- C24
\* C24: the filesProcessed of a job's record never decreases from one
\* state to the next, so successive polls never see it decrease.
C24_FilesProcessedNeverDecreases ==
    [][\A jobId \in DOMAIN activeJobs :
          jobId \in DOMAIN activeJobs'
          => ZipProgressResponse(activeJobs', jobId).job.filesProcessed
               >= ZipProgressResponse(activeJobs, jobId).job.filesProcessed]_vars

\* a record that has been updated by two entry events
C24_Witness ==
    \E jobId \in DOMAIN activeJobs : activeJobs[jobId].filesProcessed >= 2

\* ---------------------------------------------------------------- C25
\* a <= b on JS numbers
NumLeq(a, b) == ~b.finite \/ (a.finite /\ a.n <= b.n)

\* the progress the 'entry' listener of a task has last computed
ProgressOf(task) ==
    IF task.filesProcessed = 0 THEN Fin(0)
    ELSE RoundPercent(task.filesProcessed, task.totalFiles)

\* C25: whenever a job's status is zipping its progress is the value its
\* entry listener last computed, and that value never decreases; so the
\* progress of any two states with status zipping, taken in order, does
\* not decrease.
C25_ZippingProgressNeverDecreases ==
    [][\A jobId \in DOMAIN tasks :
          /\ NumLeq(ProgressOf(tasks[jobId]), ProgressOf(tasks'[jobId]))
          /\ (jobId \in DOMAIN activeJobs'
               /\ activeJobs'[jobId].status = "zipping")
              => activeJobs'[jobId].progress = ProgressOf(tasks'[jobId])
          /\ (/\ jobId \in DOMAIN activeJobs
              /\ jobId \in DOMAIN activeJobs'
              /\ activeJobs[jobId].status = "zipping"
              /\ activeJobs'[jobId].status = "zipping")
              => NumLeq(activeJobs[jobId].progress,
                        activeJobs'[jobId].progress)]_vars

\* a zipping job whose progress has gone from 33 to 67
C25_Witness ==
    \E jobId \in DOMAIN activeJobs :
        /\ activeJobs[jobId].status = "zipping"
        /\ activeJobs[jobId].progress = Fin(67)

\* ---------------------------------------------------------------- C26
\* the files of a tree outside the subtrees that cannot be read: an item
\* that cannot be stat'ed or listed is left out with what is below it,
\* its siblings are counted
RECURSIVE ReadableFiles(_)
ReadableFiles(items) ==
    IF items = <<>> THEN 0
    ELSE LET item == Head(items)
             here == IF ~item.statOk THEN 0
                     ELSE IF ~item.isDir THEN 1
                     ELSE IF ~item.listOk THEN 0
                     ELSE ReadableFiles(item.kids)
         IN  here + ReadableFiles(Tail(items))

\* C26: counting never fails the job, and the count it stores is the
\* number of files outside the unreadable subtrees: the siblings after an
\* unreadable item are counted.
C26_CountSkipsOnlyUnreadable ==
    \A jobId \in DOMAIN tasks :
        tasks[jobId].pc = "archiving"
        => /\ activeJobs[jobId].status = "zipping"
           /\ activeJobs[jobId].totalFiles
                = ReadableFiles(FolderItems(tasks[jobId].foldername))

\* ---------------------------------------------------------------- C27
\* updates the callbacks pass to updateJob
SomeUpdates ==
    { Counting,
      [totalFiles |-> 3, status |-> "zipping"],
      [status |-> "completed", progress |-> Fin(100)] }

\* the step is a callback of the background task of jobId
TaskStep(jobId) ==
    \/ MkdirDone(jobId)
    \/ MkdirFail(jobId)
    \/ CountDone(jobId)
    \/ OnEntry(jobId)
    \/ OnClose(jobId)
    \/ \E rejects \in BOOLEAN : OnArchiveError(jobId, rejects)
    \/ OnOutputError(jobId)

\* C27: for an identifier that is not in the registry updateJob,
\* completeJob and errorJob return the registry and the timers as they
\* are, and a callback of a task whose job has been evicted changes
\* neither the registry nor the eviction timers.
C27_MissingJobIsLeftAlone ==
    [][\A jobId \in AllIds \ DOMAIN activeJobs :
          /\ \A updates \in SomeUpdates :
                updateJob(activeJobs, jobId, updates) = activeJobs
          /\ \A message \in Messages :
                errorJob(Tracker, jobId, message) = Tracker
          /\ completeJob(Tracker, jobId) = Tracker
          /\ TaskStep(jobId) => UNCHANGED <<activeJobs, evictTimers>>]_vars

\* a job has been evicted while its archive still has entries to emit
C27_Witness ==
    \E jobId \in evicted :
        /\ jobId \notin DOMAIN activeJobs
        /\ ENABLED OnEntry(jobId)

\* ---------------------------------------------------------------- C28
\* C28: the zipPath of a job's record is set only while its status is
\* completed.
C28_ZipPathOnlyWhenCompleted ==
    \A jobId \in DOMAIN activeJobs :
        activeJobs[jobId].zipPath # Undefined
        => activeJobs[jobId].status = "completed"

\* ---------------------------------------------------------------- C29
\* C29: the error field of a job's record holds a message only while its
\* status is error.
C29_ErrorOnlyWhenError ==
    \A jobId \in DOMAIN activeJobs :
        activeJobs[jobId].error # Null
        => activeJobs[jobId].status = "error"

\* ---------------------------------------------------------------- C30
\* the step is a failure of the background task of jobId
FailureStep(jobId) ==
    \/ MkdirFail(jobId)
    \/ \E rejects \in BOOLEAN : OnArchiveError(jobId, rejects)
    \/ OnOutputError(jobId)

\* C30: a failure of the background task of a job leaves the answer of
\* the start-archive request as it was sent (started, with the jobId),
\* and its only effect is on the job: when the record exists, get-progress
\* returns it with status error and the message of the failure.
C30_FailureOnlyRecordedOnJob ==
    [][\A jobId \in DOMAIN tasks :
          FailureStep(jobId)
          => /\ StartZipResponse(tasks'[jobId].foldername, jobId)
                  = [code |-> 200, jobId |-> jobId, status |-> "started"]
             /\ UNCHANGED <<now, tempExists, files, cleanupTimers, evicted>>
             /\ DOMAIN activeJobs' = DOMAIN activeJobs
             /\ jobId \in DOMAIN activeJobs
                  => LET response == ZipProgressResponse(activeJobs', jobId)
                     IN  /\ response.code = 200
                         /\ response.job.status = "error"
                         /\ response.job.error \in Messages]_vars

\* a write failure has been recorded on a job
C30_Witness ==
    \E jobId \in DOMAIN activeJobs :
        /\ activeJobs[jobId].status = "error"
        /\ activeJobs[jobId].error = "write failed"
        /\ tasks[jobId].outErr

\* ---------------------------------------------------------------- C31
\* the path is the served directory or lies below it
Inside(path) ==
    /\ Len(path) >= Len(absoluteTargetDir)
    /\ SubSeq(path, 1, Len(absoluteTargetDir)) = absoluteTargetDir

\* C31: the path a listing, view, download, upload or start-archive
\* request reads or writes lies inside the served directory, whatever
\* the path query and the file name are.
C31_RequestsStayInsideTarget ==
    (request.endpoint # "none" /\ request.ok) => Inside(request.path)

\* ---------------------------------------------------------------- C32
\* C32: createJob stores a record with status initializing, progress 0,
\* filesProcessed 0, totalFiles 0, an empty currentFile and no error; and
\* get-progress finds every job that start-archive has created and no
\* eviction timer has fired for.
C32_CreatedJobIsFoundUntilEvicted ==
    /\ \A jobId \in AllIds \ DOMAIN activeJobs, foldername \in FolderNames :
          LET jobs == createJob(activeJobs, jobId, foldername, now) IN
          /\ jobId \in DOMAIN jobs
          /\ jobs[jobId].status = "initializing"
          /\ jobs[jobId].progress = Fin(0)
          /\ jobs[jobId].filesProcessed = 0
          /\ jobs[jobId].totalFiles = 0
          /\ jobs[jobId].currentFile = ""
          /\ jobs[jobId].error = Null
          /\ \A other \in DOMAIN activeJobs : jobs[other] = activeJobs[other]
    /\ \A jobId \in DOMAIN tasks \ evicted :
          /\ ZipProgressResponse(activeJobs, jobId).code = 200
          /\ ZipProgressResponse(activeJobs, jobId).job.id = jobId

\* a failed job whose eviction timer has not fired yet, with another
\* identifier still free
C32_Witness ==
    /\ AllIds \ DOMAIN activeJobs # {}
    /\ \E jobId \in DOMAIN activeJobs :
          /\ activeJobs[jobId].status = "error"
          /\ evictTimers[jobId] > 0

\* ---------------------------------------------------------------- C33
\* C33: once a poll of a job has been answered with completed or error,
\* or has failed, the page sends no further get-progress request for
\* that job.
C33_PollingStopsAtTerminal ==
    [][\A timer \in 1..MaxStarts :
          PollTick(timer) => client.currentZipJobId \notin client.done]_vars

\* ---------------------------------------------------------------- C34
\* C34: at most one polling timer of the page is active.
C34_AtMostOnePollingTimer == Cardinality(client.timers) <= 1

\* ---------------------------------------------------------------- C35
\* C35: while the dialog is closed (from closeZipModal to the next click
\* on 'Create ZIP') the page sends no get-progress request.
C35_NoPollWhileDialogClosed ==
    [][\A timer \in 1..MaxStarts : PollTick(timer) => client.modalOpen]_vars
====
